---------------------------- MODULE Spec2Model ----------------------------
(***************************************************************************)
(* KeepItAllBot: the job queue (core/queue_manager.py), the per-job        *)
(* pipeline (core/processor.py, core/downloader.py), the file cleanup      *)
(* (utils/cleanup.py) and the sliding-window rate limiter                  *)
(* (utils/rate_limiter.py, bot/handlers.py) as state machines.             *)
(*                                                                         *)
(* The program runs on one asyncio event loop: code between two awaits is  *)
(* atomic, so every action below runs a coroutine from one suspension      *)
(* point to the next.  The download itself runs in an executor thread.     *)
(* A call to the chat (send, edit, delete a message) may fail or succeed   *)
(* whatever the other coroutines do meanwhile.                             *)
(***************************************************************************)
EXTENDS Integers, Sequences, FiniteSets

\* ------------------------------------------------------------------ bounds
NumWorkers == 2        \* QueueManager.num_workers (a constructor parameter)
MaxJobs == 2           \* jobs passed to add_job in one run of the queue
MaxRequests == 2       \* RateLimiter.max_requests (a constructor parameter)
WindowSeconds == 3     \* RateLimiter.window_seconds (a constructor parameter)
TicksPerSecond == 2    \* resolution of time.time(): clock ticks in one second
MaxTime == 7           \* last clock tick of the rate limiter's run
MaxCalls == 4          \* handle_message invocations in the rate limiter's run
MaxPoolJobs == 3       \* jobs passed to add_job in the run of the worker pool
MaxAgeSeconds == 1     \* max_age_minutes * 60 of cleanup_old_files (a parameter)
MaxParts == 12         \* parts of the largest file passed to send_video

\* ------------------------------------------------------- program constants
MaxDuration == 7200                      \* processor.py:48
max_retries == 3                         \* processor.py:177
TELEGRAM_FILE_SIZE_LIMIT == 2 * 1024     \* settings.py:29, in MiB

Workers == 1..NumWorkers
Users == {"u1", "u2"}
Vids == {"vA", "vB"}
Exts == {"mp4", "other"}      \* the expected name, any other name with the prefix
Names == Users \X Vids \X Exts
NoFile == <<"none", "none", "none">>
Durations == {7200, 7500}     \* seconds the probe may report for an available video
Sizes == {1, TELEGRAM_FILE_SIZE_LIMIT + 1}   \* MiB a downloaded file may have
FloodValues == {45}           \* seconds a FloodWait may demand
NoJob == 0                    \* a worker holding no job, a user without status message
None == <<>>                  \* Python's None where a URL or a video id is expected
Pending == <<"pending">>      \* normalize_youtube_url was not called yet
Entries == {"e1", "e2", "e3"} \* names in a directory cleanup_old_files is run on
NoEntry == [kind |-> "none", mtime |-> 0]    \* no entry of that name

\* No call of _send_video is running.
NoUpload == [active |-> FALSE, total |-> 0, current |-> 0, attempt |-> 0,
             last_percent |-> 0, emitted |-> <<>>]

\* The requests add_job is called with: the first for video vA of user u1,
\* each later one for the same video of the same user, another video of
\* that user, or a video of another user.
JobInputs(k) ==
    IF k = 1 THEN {<<"u1", "vA">>}
    ELSE {<<"u1", "vA">>, <<"u1", "vB">>, <<"u2", "vA">>}

VARIABLES
    \* QueueManager
    queue,            \* asyncio.Queue: the jobs waiting, head first
    unfinished,       \* asyncio.Queue's count of put() not yet task_done()
    running,          \* _running
    processor,        \* _processor is set
    workers,          \* the tasks in self.workers
    wpc,              \* the await each worker task is suspended at
    wjob,             \* the job a worker holds
    cancelReq,        \* Task.cancel() was called on the worker and not yet delivered
    stopPc,           \* where stop() is
    timedOut,         \* stop()'s wait_for(queue.join(), 30) raised TimeoutError
    \* the DownloadJob objects created so far, and how each one ended
    jobs, outcome,
    \* process() of the job a worker runs: its locals and what it did so far
    loc,
    \* JobProcessor.status_messages and the download directory
    status_messages, disk,
    \* RateLimiter and its clock
    requests, now, admitted, lastCheck, calls,
    \* handle_message's local position: what add_job returned to it
    position,
    \* a URL given to normalize_youtube_url, and what it returned
    url, normalized,
    \* the last-modified time of each file of the download directory
    mtime,
    \* a directory cleanup_old_files is run on: kind and age of its entries,
    \* and what the latest run returned
    listing, deleted,
    \* one call of _send_video: size of the file in parts, parts sent in the
    \* current attempt, attempt, last_percent, and the progress updates made
    upload

qvars == <<queue, unfinished, running, processor, workers, wpc, wjob, cancelReq,
           stopPc, timedOut>>
jvars == <<jobs, outcome>>
cvars == <<status_messages, disk>>
lvars == <<requests, now, admitted, lastCheck, calls, position, url, normalized, listing, deleted,
          upload>>
rvars == <<lvars, mtime>>
vars == <<qvars, jvars, loc, cvars, rvars>>

\* ----------------------------------------------------------------- helpers
Jobs == 1..Len(jobs)
juser(j) == jobs[j].user_id
jvid(j) == jobs[j].vid

\* process() holds no VideoInfo (before get_info, and once it reads it no more).
NoInfo == [avail |-> FALSE, dur |-> -1]

\* process() before its first statement (processor.py:34), and nothing known
\* of what the call did.
NewLocals ==
    [file_path |-> NoFile,   \* file_path of process()
     info |-> NoInfo,        \* info of process()
     attempt |-> 0,          \* attempt of _send_video
     sleeping |-> 0,         \* seconds of the asyncio.sleep awaited
     opKind |-> "none",      \* the chat call awaited: edit, send or delete
     thread |-> "none",      \* how the executor thread ended
     reason |-> "none",      \* why the job fails
     made |-> {},            \* files the download wrote
     fails |-> 0,            \* send_video calls that raised another exception
     \* what the call did, kept until the worker's next loop iteration
     result |-> "none",      \* how process() ended
     delivered |-> FALSE,    \* a send_video call returned
     errs |-> 0]             \* failure messages _send_error issued

Init ==
    /\ queue = <<>>
    /\ unfinished = 0
    /\ running = FALSE
    /\ processor = FALSE
    /\ workers = {}
    /\ wpc = [w \in Workers |-> "idle"]
    /\ wjob = [w \in Workers |-> NoJob]
    /\ cancelReq = [w \in Workers |-> FALSE]
    /\ stopPc = "idle"
    /\ timedOut = FALSE
    /\ jobs = <<>>
    /\ outcome = <<>>
    /\ loc = [w \in Workers |-> NewLocals]
    /\ status_messages = [u \in Users |-> NoJob]
    /\ disk = [n \in Names |-> 0]
    /\ requests = [u \in Users |-> <<>>]
    /\ now = 0
    /\ admitted = [u \in Users |-> <<>>]
    /\ lastCheck = [u \in Users |-> [at |-> -1, allowed |-> FALSE]]
    /\ calls = 0
    /\ position = 0
    /\ url = None
    /\ normalized = Pending
    /\ mtime = [n \in Names |-> 0]
    /\ listing = [e \in Entries |-> NoEntry]
    /\ deleted = 0
    /\ upload = NoUpload

\* ------------------------------------------------------------ QueueManager
\* set_processor (queue_manager.py:33-40)
set_processor ==
    /\ ~processor
    /\ processor' = TRUE
    /\ UNCHANGED <<queue, unfinished, running, workers, wpc, wjob, cancelReq,
                   stopPc, timedOut, jvars, loc, cvars, rvars>>

\* A start() that creates its tasks also when the pool is running.
start_unguarded ==
    /\ stopPc = "idle"
    /\ running' = TRUE
    /\ workers' = Workers
    /\ wpc' = [w \in Workers |-> "start"]
    /\ UNCHANGED <<queue, unfinished, processor, wjob, cancelReq, stopPc, timedOut,
                   jvars, loc, cvars, rvars>>

\* start (queue_manager.py:94-104): a no-op when already running, else one
\* task per worker.  main() calls it once, before stop().
start ==
    /\ stopPc = "idle"
    /\ IF running
       THEN UNCHANGED <<running, workers, wpc>>
       ELSE /\ running' = TRUE
            /\ workers' = Workers
            /\ wpc' = [w \in Workers |-> "start"]
    /\ UNCHANGED <<queue, unfinished, processor, wjob, cancelReq, stopPc, timedOut,
                   jvars, loc, cvars, rvars>>

QueuePutFront(q, j) == <<j>> \o q

\* asyncio.Queue.put on the unbounded queue (queue_manager.py:52): the job
\* goes to the tail, without suspending the caller.
QueuePut(q, j) == Append(q, j)

qsizeBefore(q) == Len(q) - 1

\* asyncio.Queue.qsize() (queue_manager.py:53)
qsize(q) == Len(q)

\* queue.put of add_job (queue_manager.py:42-55) on the unbounded queue; the
\* job is DownloadJob(user_id=u, url of video v).
Put(u, v) ==
    /\ jobs' = Append(jobs, [user_id |-> u, vid |-> v])
    /\ outcome' = Append(outcome, "none")
    /\ queue' = QueuePut(queue, Len(jobs) + 1)
    /\ unfinished' = unfinished + 1

add_job(u, v) ==
    /\ Put(u, v)
    /\ UNCHANGED <<running, processor, workers, wpc, wjob, cancelReq, stopPc,
                   timedOut, loc, cvars, rvars>>

task_done_skipped(n) == n

\* queue.task_done() (queue_manager.py:81, 84) on the count of unfinished
\* tasks of the queue.
task_done(n) == n - 1

\* The while test of _worker (queue_manager.py:66): wait for a job, or leave.
LoopTest == IF running THEN "get" ELSE "stopped"

\* A task created by start() runs for the first time.
WorkerBegin(w) ==
    /\ wpc[w] = "start"
    /\ ~cancelReq[w]
    /\ wpc' = [wpc EXCEPT ![w] = LoopTest]
    /\ UNCHANGED <<queue, unfinished, running, processor, workers, wjob, cancelReq,
                   stopPc, timedOut, jvars, loc, cvars, rvars>>

\* wait_for(queue.get(), 1.0) times out on an empty queue and the loop
\* continues (queue_manager.py:70-72, 66).
WorkerTimeout(w) ==
    /\ wpc[w] = "get"
    /\ ~cancelReq[w]
    /\ queue = <<>>
    /\ wpc' = [wpc EXCEPT ![w] = LoopTest]
    /\ loc' = [loc EXCEPT ![w] = NewLocals]
    /\ UNCHANGED <<queue, unfinished, running, processor, workers, wjob, cancelReq,
                   stopPc, timedOut, jvars, cvars, rvars>>

\* The locals once process() called _update_status or _send_error, which look
\* the user up in status_messages sm and await an edit of the message found
\* or the sending of a new one (processor.py:111-119, 136-144).
CallStatusOp(l, sm, u) ==
    [l EXCEPT !.opKind = IF sm[u] # NoJob THEN "edit" ELSE "send"]

\* The locals once process() awaits something else.
CallOther(l) == [l EXCEPT !.opKind = "none"]

\* A get() that leaves the job in the queue: the job is then at two places.
QueueGetKeep(q) == q

\* The queue once queue.get() returned its head (queue_manager.py:70).
QueueGet(q) == Tail(q)

\* queue.get() returns the head (queue_manager.py:70); with a processor the
\* worker enters process() up to its first await (processor.py:38), without
\* one it skips the job (queue_manager.py:82-84).
WorkerGet(w) ==
    /\ wpc[w] = "get"
    /\ ~cancelReq[w]
    /\ queue # <<>>
    /\ LET j == Head(queue) IN
       /\ queue' = QueueGet(queue)
       /\ IF processor
          THEN /\ wjob' = [wjob EXCEPT ![w] = j]
               /\ wpc' = [wpc EXCEPT ![w] = "status_info"]
               /\ loc' = [loc EXCEPT ![w] = CallStatusOp(NewLocals, status_messages, juser(j))]
               /\ UNCHANGED <<unfinished, outcome>>
          ELSE /\ unfinished' = task_done(unfinished)
               /\ outcome' = [outcome EXCEPT ![j] = "skipped"]
               /\ wpc' = [wpc EXCEPT ![w] = LoopTest]
               /\ loc' = [loc EXCEPT ![w] = NewLocals]
               /\ UNCHANGED wjob
    /\ UNCHANGED <<running, processor, workers, cancelReq, stopPc, timedOut, jobs,
                   cvars, rvars>>

\* ------------------------------------------------------------ JobProcessor
delete_file_never(d, fp) == d

\* delete_file (cleanup.py:13-31) as the finally of process() calls it
\* (processor.py:103-106): unlink the file if it is set and exists.
delete_file(d, fp) == IF fp # NoFile /\ d[fp] # 0 THEN [d EXCEPT ![fp] = 0] ELSE d

\* A worker that leaves its loop when a job failed.
ResumeDying(res) == IF res = "failed" THEN "stopped" ELSE IF running THEN "get" ELSE "stopped"

\* Where the worker goes once process() ended as res: whatever happened to
\* the job, task_done() and the while test (queue_manager.py:75-81, 66).
Resume(res) == LoopTest

\* What is known of a call of process() that ended as res with locals l.
Ended(l, res) ==
    [NewLocals EXCEPT !.result = res, !.delivered = l.delivered, !.errs = l.errs]

\* process() returns or raises with locals l and result res: its finally
\* deletes the file (processor.py:103-106), the worker calls task_done() and
\* tests the loop (queue_manager.py:80-81, 66).
Finish(w, l, res) ==
    /\ disk' = delete_file(disk, l.file_path)
    /\ unfinished' = task_done(unfinished)
    /\ outcome' = [outcome EXCEPT ![wjob[w]] = res]
    /\ wjob' = [wjob EXCEPT ![w] = NoJob]
    /\ wpc' = [wpc EXCEPT ![w] = Resume(res)]
    /\ loc' = [loc EXCEPT ![w] = Ended(l, res)]

AfterStatusSkipping(pc) == "send"

\* The await that follows each _update_status of process(): get_info (41),
\* download (62), send_video (180).
AfterStatus(pc) ==
    CASE pc = "status_info" -> "get_info" [] pc = "status_dl" -> "download"
      [] OTHER -> "send"

\* The locals when that await begins; info is read no more once the download
\* is called.
EnterAwait(l, pc) ==
    IF pc = "status_dl" THEN [CallOther(l) EXCEPT !.info = NoInfo] ELSE CallOther(l)

\* _update_status (processor.py:108-122) ends: a message sent is stored under
\* the user, a failure is swallowed.  Then the next await of process().
UpdateStatusDone(w) ==
    /\ wpc[w] \in {"status_info", "status_dl", "status_up"}
    /\ ~cancelReq[w]
    /\ \E ok \in BOOLEAN :
        status_messages' =
            IF ok /\ loc[w].opKind = "send"
            THEN [status_messages EXCEPT ![juser(wjob[w])] = wjob[w]]
            ELSE status_messages
    /\ loc' = [loc EXCEPT ![w] = EnterAwait(@, wpc[w])]
    /\ wpc' = [wpc EXCEPT ![w] = AfterStatus(wpc[w])]
    /\ UNCHANGED <<queue, unfinished, running, processor, workers, wjob, cancelReq,
                   stopPc, timedOut, jvars, disk, rvars>>

\* What get_info (downloader.py:156-236) may return: an available video with a
\* duration, or an unavailable one (duration 0).
ProbeResults ==
    {[avail |-> TRUE, dur |-> d] : d \in Durations} \cup {[avail |-> FALSE, dur |-> 0]}

\* A limit that lets a video of 7500 s through.
TooLongLax(d) == d > 7500

\* processor.py:48
TooLong(d) == d > MaxDuration

\* The reason process() fails the job with after the probe, "none" to go on
\* (processor.py:43-50).
ProbeVerdict(r) ==
    IF ~r.avail THEN "unavailable" ELSE IF TooLong(r.dur) THEN "too_long" ELSE "none"

\* get_info returns (processor.py:41-59): a failure goes to _send_error and
\* returns, otherwise the status is updated before the download.
GetInfoDone(w) ==
    /\ wpc[w] = "get_info"
    /\ ~cancelReq[w]
    /\ \E r \in ProbeResults :
        /\ loc' = [loc EXCEPT ![w] =
                     CallStatusOp([@ EXCEPT !.info = r, !.reason = ProbeVerdict(r)],
                                  status_messages, juser(wjob[w]))]
        /\ wpc' = [wpc EXCEPT ![w] =
                     IF ProbeVerdict(r) = "none" THEN "status_dl" ELSE "send_error"]
    /\ UNCHANGED <<queue, unfinished, running, processor, workers, wjob, cancelReq,
                   stopPc, timedOut, jvars, cvars, rvars>>

\* _send_error (processor.py:133-146) ends and process() returns.  An edit
\* that succeeded is followed by del status_messages[user]; a failure of the
\* chat call is swallowed.
SendErrorDone(w) ==
    /\ wpc[w] = "send_error"
    /\ ~cancelReq[w]
    /\ \E ok \in BOOLEAN :
        /\ status_messages' = IF ok /\ loc[w].opKind = "edit"
                              THEN [status_messages EXCEPT ![juser(wjob[w])] = NoJob]
                              ELSE status_messages
        /\ Finish(w, [loc[w] EXCEPT !.errs = @ + 1], "failed")
    /\ UNCHANGED <<queue, running, processor, workers, cancelReq, stopPc, timedOut,
                   jobs, rvars>>

\* _delete_status (processor.py:124-131) ends and process() returns: the entry
\* is removed once the message was deleted, a failure is swallowed.
DeleteStatusDone(w) ==
    /\ wpc[w] = "delete_status"
    /\ ~cancelReq[w]
    /\ \E ok \in BOOLEAN :
        status_messages' = IF ok THEN [status_messages EXCEPT ![juser(wjob[w])] = NoJob]
                           ELSE status_messages
    /\ Finish(w, loc[w], "done")
    /\ UNCHANGED <<queue, running, processor, workers, cancelReq, stopPc, timedOut,
                   jobs, rvars>>

\* ---------------------------------------------------- YouTubeDownloader
\* The name yt-dlp is asked to write, "<user>_<video id>.mp4"
\* (downloader.py:250, 258-260).
Expected(j) == <<juser(j), jvid(j), "mp4">>
\* A file of the same prefix and another name: another extension, a partial
\* download (downloader.py:281).
Other(j) == <<juser(j), jvid(j), "other">>

\* What the executor thread (_download, downloader.py:253-262) leaves when it
\* ends: <<result, file written, its size>>.  It returns the info having
\* written the expected name or another one, or raises having written nothing
\* or a partial file.
ThreadEnds(j) ==
    {<<"ok", n, sz>> : n \in {Expected(j), Other(j)}, sz \in Sizes}
      \cup {<<"error", NoFile, 0>>, <<"error", Other(j), 1>>}

\* The directory after a thread wrote file n of size sz.
Written(d, n, sz) == IF n = NoFile THEN d ELSE [d EXCEPT ![n] = sz]

\* The last-modified times after a thread wrote file n at time t.
Stamped(m, n, t) == IF n = NoFile THEN m ELSE [m EXCEPT ![n] = t]

\* The executor thread ends while download() awaits it.
DownloadThread(w) ==
    /\ wpc[w] = "download"
    /\ loc[w].thread = "none"
    /\ \E e \in ThreadEnds(wjob[w]) :
        /\ disk' = Written(disk, e[2], e[3])
        /\ mtime' = Stamped(mtime, e[2], now)
        /\ loc' = [loc EXCEPT ![w] =
                     [@ EXCEPT !.thread = e[1], !.made = @ \cup ({e[2]} \ {NoFile})]]
    /\ UNCHANGED <<qvars, jvars, status_messages, lvars>>

\* wait_for(..., timeout=self.timeout) raises TimeoutError while the thread is
\* still running (downloader.py:268-271, 315-320): download() returns a
\* failure, process() goes to _send_error (processor.py:64-66).  The thread
\* may have written part of the file by then.
DownloadTimeout(w) ==
    /\ wpc[w] = "download"
    /\ loc[w].thread = "none"
    /\ ~cancelReq[w]
    /\ \E n \in {NoFile, Other(wjob[w])} :
        /\ disk' = Written(disk, n, 1)
        /\ mtime' = Stamped(mtime, n, now)
        /\ loc' = [loc EXCEPT ![w] =
                     CallStatusOp([@ EXCEPT !.reason = "timeout",
                                            !.made = @ \cup ({n} \ {NoFile})],
                                  status_messages, juser(wjob[w]))]
    /\ wpc' = [wpc EXCEPT ![w] = "send_error"]
    /\ UNCHANGED <<queue, unfinished, running, processor, workers, wjob, cancelReq,
                   stopPc, timedOut, jvars, status_messages, lvars>>

\* download_path.glob("<user>_*") (downloader.py:284-285)
Matches(d, u) == {n \in Names : n[1] = u /\ d[n] # 0}

\* The files download() may settle on (downloader.py:279-292): the expected
\* name if it exists, else any file the glob finds first.
Candidates(d, j) == IF d[Expected(j)] # 0 THEN {Expected(j)} ELSE Matches(d, juser(j))

\* downloader.py:297
TooLarge(sz) == sz > TELEGRAM_FILE_SIZE_LIMIT

\* The failure download() returns for a thread that ended as t, with the files
\* c to choose from and fp chosen; "none" for a success (downloader.py:273-342).
DownloadVerdict(t, c, d, fp) ==
    IF t = "error" THEN "download_error"
    ELSE IF c = {} THEN "not_found"
    ELSE IF TooLarge(d[fp]) THEN "oversize"
    ELSE "none"

\* The directory download() leaves: an oversized file is unlinked
\* (downloader.py:297-299).
AfterSizeCheck(v, d, fp) == IF v = "oversize" THEN [d EXCEPT ![fp] = 0] ELSE d

\* download() resumes after the thread ended (downloader.py:273-342) and
\* process() takes its result (processor.py:64-76).
DownloadReturn(w) ==
    /\ wpc[w] = "download"
    /\ loc[w].thread # "none"
    /\ ~cancelReq[w]
    /\ LET j == wjob[w]
           c == Candidates(disk, j)
       IN \E fp \in (IF loc[w].thread = "ok" /\ c # {} THEN c ELSE {NoFile}) :
           LET v == DownloadVerdict(loc[w].thread, c, disk, fp) IN
           /\ disk' = AfterSizeCheck(v, disk, fp)
           /\ loc' = [loc EXCEPT ![w] =
                        CallStatusOp([@ EXCEPT !.reason = v,
                                               !.file_path = IF v = "none" THEN fp ELSE NoFile],
                                     status_messages, juser(j))]
           /\ wpc' = [wpc EXCEPT ![w] = IF v = "none" THEN "status_up" ELSE "send_error"]
    /\ UNCHANGED <<queue, unfinished, running, processor, workers, wjob, cancelReq,
                   stopPc, timedOut, jvars, status_messages, rvars>>

\* ------------------------------------------------------------ _send_video
\* After _send_video returned without raising, with locals l
\* (processor.py:79-88): _delete_status awaits the chat only if the user has
\* an entry, else process() returns at once.
AfterSendVideo(w, l) ==
    IF status_messages[juser(wjob[w])] # NoJob
    THEN /\ loc' = [loc EXCEPT ![w] = [l EXCEPT !.sleeping = 0, !.opKind = "delete", !.attempt = 0,
                                               !.fails = 0]]
         /\ wpc' = [wpc EXCEPT ![w] = "delete_status"]
         /\ UNCHANGED <<disk, unfinished, outcome, wjob>>
    ELSE Finish(w, l, "done")

\* send_video returns (processor.py:180-188).
SendOk(w) ==
    /\ wpc[w] = "send"
    /\ ~cancelReq[w]
    /\ AfterSendVideo(w, [loc[w] EXCEPT !.delivered = TRUE])
    /\ UNCHANGED <<queue, running, processor, workers, cancelReq, stopPc, timedOut,
                   jobs, status_messages, rvars>>

\* The progress callback of send_video (processor.py:163-174) calls
\* _update_status while the upload runs: with no status message stored for
\* the user it sends one and stores it (processor.py:115-120); an edit of the
\* stored one changes its text only.
UploadProgress(w) ==
    /\ wpc[w] = "send"
    /\ ~cancelReq[w]
    /\ status_messages[juser(wjob[w])] = NoJob
    /\ status_messages' = [status_messages EXCEPT ![juser(wjob[w])] = wjob[w]]
    /\ UNCHANGED <<qvars, jvars, loc, disk, rvars>>

\* send_video raises FloodWait(v): _send_video sleeps v (processor.py:190-192).
SendFlood(w) ==
    /\ wpc[w] = "send"
    /\ ~cancelReq[w]
    /\ \E v \in FloodValues :
        loc' = [loc EXCEPT ![w] = [@ EXCEPT !.sleeping = v]]
    /\ wpc' = [wpc EXCEPT ![w] = "sleep"]
    /\ UNCHANGED <<queue, unfinished, running, processor, workers, wjob, cancelReq,
                   stopPc, timedOut, jvars, cvars, rvars>>

\* 2 ** attempt (processor.py:197)
Backoff(a) == 2 ^ a

\* Whether a failed attempt is followed by a sleep and another (processor.py:196).
Retries(a) == a < max_retries - 1

\* The handler of process() an exception of _send_video reaches
\* (processor.py:95-101): RPCError, or any other Exception.
ErrorKinds == {"telegram", "generic"}

\* send_video raises another exception (processor.py:194-199): a sleep of
\* 2 ** attempt before the next attempt, or, on the last one, the exception
\* goes up to process(), whose handler calls _send_error.
SendFail(w) ==
    /\ wpc[w] = "send"
    /\ ~cancelReq[w]
    /\ \E k \in ErrorKinds :
        IF Retries(loc[w].attempt)
        THEN /\ loc' = [loc EXCEPT ![w] = [@ EXCEPT !.sleeping = Backoff(loc[w].attempt),
                                                      !.fails = @ + 1]]
             /\ wpc' = [wpc EXCEPT ![w] = "sleep"]
        ELSE /\ loc' = [loc EXCEPT ![w] =
                          CallStatusOp([@ EXCEPT !.reason = k, !.attempt = 0, !.fails = 0],
                                       status_messages,
                                       juser(wjob[w]))]
             /\ wpc' = [wpc EXCEPT ![w] = "send_error"]
    /\ UNCHANGED <<queue, unfinished, running, processor, workers, wjob, cancelReq,
                   stopPc, timedOut, jvars, cvars, rvars>>

\* asyncio.sleep of _send_video ends (processor.py:192, 197): the for loop
\* goes to its next attempt, or, after the last one, ends, and _send_video
\* returns None (processor.py:178).
SleepDone(w) ==
    /\ wpc[w] = "sleep"
    /\ ~cancelReq[w]
    /\ IF loc[w].attempt + 1 < max_retries
       THEN /\ loc' = [loc EXCEPT ![w] = [@ EXCEPT !.attempt = @ + 1, !.sleeping = 0]]
            /\ wpc' = [wpc EXCEPT ![w] = "send"]
            /\ UNCHANGED <<disk, unfinished, outcome, wjob>>
       ELSE AfterSendVideo(w, loc[w])
    /\ UNCHANGED <<queue, running, processor, workers, cancelReq, stopPc, timedOut,
                   jobs, status_messages, rvars>>

\* --------------------------------------------------------------- stop()
\* stop() is called (queue_manager.py:106-113): the flag is cleared and
\* queue.join() awaited for at most 30 s.
StopCall ==
    /\ stopPc = "idle"
    /\ running' = FALSE
    /\ stopPc' = "join"
    /\ UNCHANGED <<queue, unfinished, processor, workers, wpc, wjob, cancelReq,
                   timedOut, jvars, loc, cvars, rvars>>

CancelNone == [w \in Workers |-> FALSE]

\* for worker in self.workers: worker.cancel() (queue_manager.py:118-119);
\* cancelling a task that has ended does nothing.
CancelAll == [w \in Workers |-> w \in workers /\ wpc[w] # "stopped"]

\* A join() that returns at once, with jobs still being processed.
JoinAtOnce == TRUE

\* queue.join() returns: every job put was marked done (queue_manager.py:113).
JoinReturns == unfinished = 0

\* stop() resumes from the join and cancels the workers.
StopJoined ==
    /\ stopPc = "join"
    /\ JoinReturns
    /\ stopPc' = "gather"
    /\ cancelReq' = CancelAll
    /\ UNCHANGED <<queue, unfinished, running, processor, workers, wpc, wjob,
                   timedOut, jvars, loc, cvars, rvars>>

\* The 30 s pass with jobs not marked done (queue_manager.py:113-115); stop()
\* cancels the workers all the same.
StopTimeout ==
    /\ stopPc = "join"
    /\ ~JoinReturns
    /\ stopPc' = "gather"
    /\ timedOut' = TRUE
    /\ cancelReq' = CancelAll
    /\ UNCHANGED <<queue, unfinished, running, processor, workers, wpc, wjob,
                   jvars, loc, cvars, rvars>>

\* A cancelled worker resumes with CancelledError at its await.  While idle it
\* leaves the loop; inside process() no handler catches it, the finally
\* deletes the file, the worker calls task_done() and breaks
\* (processor.py:103-106, queue_manager.py:80-81, 86-88).
WorkerCancelled(w) ==
    /\ cancelReq[w]
    /\ cancelReq' = [cancelReq EXCEPT ![w] = FALSE]
    /\ IF wjob[w] = NoJob
       THEN /\ wpc' = [wpc EXCEPT ![w] = "stopped"]
            /\ UNCHANGED <<disk, unfinished, outcome, wjob, loc>>
       ELSE Finish(w, loc[w], "aborted")
    /\ UNCHANGED <<queue, running, processor, workers, stopPc, timedOut, jobs,
                   status_messages, rvars>>

\* gather returns when every worker has ended; the list is cleared
\* (queue_manager.py:122-126).
StopGathered ==
    /\ stopPc = "gather"
    /\ \A w \in workers : wpc[w] = "stopped"
    /\ stopPc' = "done"
    /\ workers' = {}
    /\ UNCHANGED <<queue, unfinished, running, processor, wpc, wjob, cancelReq,
                   timedOut, jvars, loc, cvars, rvars>>

\* -------------------------------------------------------- specification
WorkerStep(w) ==
    \/ WorkerBegin(w)
    \/ WorkerTimeout(w)
    \/ WorkerGet(w)
    \/ UpdateStatusDone(w)
    \/ GetInfoDone(w)
    \/ SendErrorDone(w)
    \/ DeleteStatusDone(w)
    \/ DownloadThread(w)
    \/ DownloadTimeout(w)
    \/ DownloadReturn(w)
    \/ UploadProgress(w)
    \/ SendOk(w)
    \/ SendFlood(w)
    \/ SendFail(w)
    \/ SleepDone(w)
    \/ WorkerCancelled(w)

\* Jobs arrive while fewer than MaxJobs were created.
Arrival == \E in \in JobInputs(Len(jobs) + 1) : Len(jobs) < MaxJobs /\ add_job(in[1], in[2])

Next ==
    \/ set_processor
    \/ start
    \/ Arrival
    \/ \E w \in Workers : WorkerStep(w)
    \/ StopCall
    \/ StopJoined
    \/ StopTimeout
    \/ StopGathered

Spec == Init /\ [][Next]_vars

\* The event loop does not stay idle while a worker task can run: a ready task
\* is resumed, and every await of process() ends (a chat call returns or
\* raises, the download ends or times out, a sleep elapses).
Fairness == WF_vars(\E w \in Workers : WorkerStep(w))

SpecLive == Spec /\ Fairness

\* ------------------------------------------------------------ RateLimiter
\* window_seconds (rate_limiter.py:25) in clock ticks.
Window == WindowSeconds * TicksPerSecond

\* A test that keeps a timestamp exactly window_seconds old.
FreshOrEqual(ts, t) == ts >= t - Window

\* The test of _cleanup_old_requests (rate_limiter.py:35-38): a timestamp is
\* kept when it is newer than the cutoff now - window_seconds.
Fresh(ts, t) == ts > t - Window

\* _cleanup_old_requests (rate_limiter.py:31-38) on a user's list r at time t.
cleanup_old_requests(r, t) == SelectSeq(r, LAMBDA ts : Fresh(ts, t))

is_allowed_at_limit(r, t) == Len(cleanup_old_requests(r, t)) <= MaxRequests

is_allowed_always(r, t) == TRUE

\* is_allowed (rate_limiter.py:40-51)
is_allowed(r, t) == Len(cleanup_old_requests(r, t)) < MaxRequests

record_request_once(r, t) ==
    IF \E i \in 1..Len(r) : r[i] = t THEN cleanup_old_requests(r, t)
    ELSE Append(cleanup_old_requests(r, t), t)

\* record_request (rate_limiter.py:53-61)
record_request(r, t) == Append(cleanup_old_requests(r, t), t)

\* min() of a non-empty list (rate_limiter.py:90).
Minimum(r) == CHOOSE x \in {r[i] : i \in 1..Len(r)} : \A i \in 1..Len(r) : x <= r[i]

CeilSeconds(ticks) == (ticks + TicksPerSecond - 1) \div TicksPerSecond

\* int() of a non-negative float number of seconds (rate_limiter.py:92): the
\* fraction is dropped.
IntSeconds(ticks) == ticks \div TicksPerSecond

\* get_reset_time (rate_limiter.py:76-93) on a user's list r at time t.
get_reset_time(r, t) ==
    LET live == cleanup_old_requests(r, t)
    IN  IF live = <<>> THEN 0
        ELSE LET remaining == IntSeconds(Minimum(live) + Window - t)
             IN  IF remaining > 0 THEN remaining ELSE 0

\* time.time() advances.
Tick ==
    /\ now < MaxTime
    /\ now' = now + 1
    /\ UNCHANGED <<qvars, jvars, loc, cvars, requests, admitted, lastCheck, calls,
                   position, url, normalized, mtime, listing,
                   deleted, upload>>

\* ---------------------------------------------------------- URL validation
\* A URL or a message text is the sequence of its parts: scheme, host prefix,
\* host, path, then the characters that follow, one by one or as one part
\* that starts with a character no video id may hold.
IdLen == 11
Repeat(c, n) == [i \in 1..n |-> c]

\* The video ids of the two videos.
IdOf == [v \in Vids |-> IF v = "vA" THEN Repeat("A", IdLen) ELSE Repeat("b", IdLen)]
VideoOf(id) == CHOOSE v \in Vids : IdOf[v] = id

\* [a-zA-Z0-9_-] (validators.py:22)
IdChars == {"A", "b", "0", "_", "-"}

\* re.IGNORECASE (validators.py:23) on the parts written in upper case.
Lower(part) ==
    CASE part = "YOUTUBE.COM/" -> "youtube.com/"
      [] part = "YOUTU.BE/" -> "youtu.be/"
      [] part = "WATCH?V=" -> "watch?v="
      [] OTHER -> part

\* (?:watch\?v=|v/|embed/|shorts/) (validators.py:22)
PathParts == {"watch?v=", "v/", "embed/", "shorts/"}

\* ([a-zA-Z0-9_-]{11}) matches at position k of s.
IdAt(s, k) == k + IdLen - 1 <= Len(s) /\ \A m \in k..(k + IdLen - 1) : s[m] \in IdChars

\* Where the id starts when YOUTUBE_REGEX (validators.py:21-24) matches with
\* its host at position i of s, 0 when it does not match there.  The scheme
\* and the www. or m. before the host are optional, so whatever precedes the
\* host is of no effect.
IdStart(s, i) ==
    IF Lower(s[i]) = "youtube.com/"
    THEN IF i + 1 <= Len(s) /\ Lower(s[i + 1]) \in PathParts /\ IdAt(s, i + 2)
         THEN i + 2 ELSE 0
    ELSE IF Lower(s[i]) = "youtu.be/" /\ IdAt(s, i + 1) THEN i + 1 ELSE 0

\* extract_video_id (validators.py:27-40): group 1 of the leftmost match.
extract_video_id(s) ==
    LET hits == {i \in 1..Len(s) : IdStart(s, i) > 0}
    IN  IF hits = {} THEN None
        ELSE LET i == CHOOSE h \in hits : \A g \in hits : h <= g
             IN  SubSeq(s, IdStart(s, i), IdStart(s, i) + IdLen - 1)

\* is_valid_youtube_url (validators.py:43-53)
is_valid_youtube_url(s) == extract_video_id(s) # None

\* extract_urls_from_text (validators.py:56-84) on a text holding at most one
\* link: https:// is put before a link without scheme, and the link is kept
\* when it is a YouTube URL.
extract_urls_from_text(text) ==
    LET u == IF text[1] \in {"https://", "http://"} THEN text ELSE <<"https://">> \o text
    IN  IF is_valid_youtube_url(u) THEN <<u>> ELSE <<>>

CanonicalMobile(id) == <<"https://", "m.", "youtube.com/", "watch?v=">> \o id

\* The f-string of normalize_youtube_url (validators.py:99).
Canonical(id) == <<"https://", "www.", "youtube.com/", "watch?v=">> \o id

\* normalize_youtube_url (validators.py:87-100)
normalize_youtube_url(s) ==
    LET video_id == extract_video_id(s)
    IN  IF video_id # None THEN Canonical(video_id) ELSE None

\* The texts a user sends: two with a link to video vA, written in two ways,
\* and one without a link.
Texts ==
    { <<"https://", "www.", "youtube.com/", "watch?v=">> \o IdOf["vA"],
      <<"youtu.be/">> \o IdOf["vA"] \o <<"?t=10">>,
      <<"hello">> }

\* handle_message (handlers.py:57-118) for a text of user u: without a link it
\* returns (70-74); a user over the limit is told when to come back (79-85);
\* otherwise the first link is normalized (88-93), the request is recorded
\* and the job enqueued (96-107).
handle_message(u, text) ==
    /\ calls < MaxCalls
    /\ calls' = calls + 1
    /\ LET urls == extract_urls_from_text(text)
       IN  IF urls = <<>>
           THEN UNCHANGED <<requests, admitted, lastCheck, queue, unfinished, jvars,
                            position>>
           ELSE /\ lastCheck' = [lastCheck EXCEPT ![u] =
                                   [at |-> now, allowed |-> is_allowed(requests[u], now)]]
                /\ IF is_allowed(requests[u], now)
                   THEN LET normalized_url == normalize_youtube_url(urls[1])
                        IN  IF normalized_url = None
                            THEN /\ requests' = [requests EXCEPT ![u] =
                                                   cleanup_old_requests(@, now)]
                                 /\ UNCHANGED <<admitted, queue, unfinished, jvars,
                                                position>>
                            ELSE /\ requests' = [requests EXCEPT ![u] =
                                                   record_request(@, now)]
                                 /\ admitted' = [admitted EXCEPT ![u] = Append(@, now)]
                                 /\ Put(u, VideoOf(extract_video_id(normalized_url)))
                                 /\ position' = qsize(queue')
                   ELSE /\ requests' = [requests EXCEPT ![u] = cleanup_old_requests(@, now)]
                        /\ UNCHANGED <<admitted, queue, unfinished, jvars, position>>
    /\ UNCHANGED <<running, processor, workers, wpc, wjob, cancelReq, stopPc,
                   timedOut, loc, cvars, now, url, normalized, mtime, listing,
                   deleted, upload>>

NextRL ==
    \/ Tick
    \/ \E u \in Users, text \in Texts : handle_message(u, text)

SpecRL == Init /\ [][NextRL]_vars

\* The queue with workers started and no processor registered, fed by
\* handle_message: every job a worker takes is marked done at once.
NextBot ==
    \/ start
    \/ \E u \in Users, text \in Texts : handle_message(u, text)
    \/ \E w \in Workers : WorkerBegin(w) \/ WorkerTimeout(w) \/ WorkerGet(w)

SpecBot == Init /\ [][NextBot]_vars

\* The URLs normalize_youtube_url is called with: with and without scheme,
\* with and without www. or m., every path of the pattern and two others,
\* ids that are complete, too short, or hold a character no id may hold,
\* with and without something after the id.
Schemes == {<<>>, <<"https://">>, <<"http://">>}
Prefixes == {<<>>, <<"www.">>, <<"m.">>}
Hosts ==
    {<<"youtube.com/", p>> : p \in PathParts \cup {"playlist?list="}}
        \cup {<<"youtu.be/">>, <<"YOUTUBE.COM/", "WATCH?V=">>, <<"vimeo.com/">>}
Ids ==
    {IdOf[v] : v \in Vids}
        \cup {Repeat("A", IdLen - 1), Repeat("A", IdLen - 1) \o <<"!">>,
              <<"_", "-", "0">> \o Repeat("b", IdLen - 3)}
Tails == {<<>>, <<"&t=10">>, <<"A">>}
Urls == {s \o p \o h \o i \o t : s \in Schemes, p \in Prefixes, h \in Hosts, i \in Ids, t \in Tails}

\* A caller picks a URL.
Receive ==
    /\ url = None
    /\ \E s \in Urls : url' = s
    /\ UNCHANGED <<qvars, jvars, loc, cvars, requests, now, admitted, lastCheck, calls,
                   position, normalized, mtime, listing,
                   deleted, upload>>

\* normalize_youtube_url(url)
NormalizeUrl ==
    /\ url # None
    /\ normalized = Pending
    /\ normalized' = normalize_youtube_url(url)
    /\ UNCHANGED <<qvars, jvars, loc, cvars, requests, now, admitted, lastCheck, calls,
                   position, url, mtime, listing,
                   deleted, upload>>

\* normalize_youtube_url on what it returned.
Renormalize ==
    /\ normalized \notin {Pending, None}
    /\ url # normalized
    /\ url' = normalized
    /\ normalized' = normalize_youtube_url(normalized)
    /\ UNCHANGED <<qvars, jvars, loc, cvars, requests, now, admitted, lastCheck, calls,
                   position, mtime, listing,
                   deleted, upload>>

NextURL == Receive \/ NormalizeUrl \/ Renormalize

SpecURL == Init /\ [][NextURL]_vars
\* ------------------------------------------------------------------ claims
Queued(j) == \E i \in 1..Len(queue) : queue[i] = j
Held(j) == \E w \in Workers : wjob[w] = j

\* The places a job is at: waiting in the queue, held by a worker, ended.
Places(j) ==
    Cardinality({i \in 1..Len(queue) : queue[i] = j})
      + Cardinality({w \in Workers : wjob[w] = j})
      + (IF outcome[j] # "none" THEN 1 ELSE 0)

\* C1: every job passed to add_job is at exactly one place at any time (in
\* the queue, with one worker, or ended: never with two workers, never taken
\* twice, never lost), and a job waiting in a running queue with a processor
\* set is eventually taken by a worker, unless the queue is shut down.
C1_ExactlyOnceNoStarvation ==
    /\ [](\A j \in Jobs : Places(j) = 1)
    /\ \A j \in 1..MaxJobs :
         (j \in Jobs /\ Queued(j) /\ running /\ processor)
            ~> (~running \/ (j \in Jobs /\ (Held(j) \/ outcome[j] # "none")))

\* Two workers process two jobs at the same time.
C1_Witness ==
    \E w1, w2 \in Workers :
        w1 # w2 /\ wjob[w1] # NoJob /\ wjob[w2] # NoJob /\ wjob[w1] # wjob[w2] /\ running

\* The requests of user u admitted before the last is_allowed call for u.
Prior(u) ==
    IF lastCheck[u].allowed THEN SubSeq(admitted[u], 1, Len(admitted[u]) - 1)
    ELSE admitted[u]

\* How many of them are less than window_seconds old at that call.
InWindow(u) ==
    Cardinality({i \in 1..Len(Prior(u)) : Prior(u)[i] > lastCheck[u].at - Window})

\* C2: is_allowed answers true exactly when fewer than max_requests of the
\* user's admitted requests are less than window_seconds old: false once
\* max_requests were admitted within the window, true again when the oldest
\* of them is window_seconds old.
C2_SlidingWindow ==
    \A u \in Users :
        lastCheck[u].at >= 0 => (lastCheck[u].allowed <=> InWindow(u) < MaxRequests)

\* A user who filled the window at one instant is admitted again exactly
\* window_seconds later.
C2_Witness ==
    \E u \in Users :
        /\ lastCheck[u].allowed
        /\ Len(admitted[u]) = MaxRequests + 1
        /\ admitted[u][MaxRequests] = admitted[u][1]
        /\ lastCheck[u].at = admitted[u][1] + Window

\* C3: when process() ends for a job, however it ends, no file the job's
\* download wrote exists any more.
C3_NoFileSurvives ==
    [][\A w \in Workers :
          (wjob[w] # NoJob /\ wjob'[w] = NoJob) => \A n \in loc[w].made : disk'[n] = 0]_vars

\* C4: after the sleep a FloodWait demanded, the processor does not call
\* send_video again: it reports a rate-limit failure and the job ends.
C4_FloodWaitIsTerminal ==
    [][\A w \in Workers :
          (wpc[w] = "sleep" /\ loc[w].sleeping \in FloodValues /\ ~cancelReq[w]
             /\ wpc'[w] # "sleep")
            => (wpc'[w] = "send_error" /\ loc'[w].reason = "flood_wait")]_vars

C6_NoStartAfterStop ==
    [][\A w \in Workers : (wjob[w] = NoJob /\ wjob'[w] # NoJob) => stopPc = "idle"]_vars

\* C7: a worker task ends only when the queue is shut down, and a worker
\* whose job failed is back waiting for the next job while the queue runs.
C7_FailureIsolation ==
    \A w \in Workers :
        /\ wpc[w] = "stopped" => ~running
        /\ (loc[w].result = "failed" /\ running) => wpc[w] = "get"

\* Worker 1 failed job 1 and took job 2 (worker 2 has not run yet).
C7_Witness ==
    /\ Len(jobs) = 2
    /\ outcome[1] = "failed"
    /\ wjob[1] = 2
    /\ wpc[2] = "start"

\* C8: a job that failed was reported with exactly one failure message, and
\* a job ends as a success, without a failure message, only if its video was
\* delivered.
C8_OneFailureMessage ==
    \A w \in Workers :
        /\ loc[w].result = "failed" => loc[w].errs = 1
        /\ loc[w].result = "done" => (loc[w].delivered /\ loc[w].errs = 0)

\* C9: download() is called only after a probe that found the video
\* available and at most 7200 s long; after any other probe the job goes to
\* _send_error and ends failed, without a download.
C9_FetchOnlyAfterGoodProbe ==
    [][\A w \in Workers :
          /\ (wpc[w] # "download" /\ wpc'[w] = "download")
               => (loc[w].info.avail /\ loc[w].info.dur <= 7200)
          /\ (wpc[w] = "get_info" /\ wpc'[w] # "get_info" /\ ~cancelReq[w]
                /\ ~(loc'[w].info.avail /\ loc'[w].info.dur <= 7200))
               => wpc'[w] = "send_error"
          /\ (wpc[w] = "send_error" /\ wpc'[w] # "send_error")
               => (wpc'[w] \in {"get", "stopped"}
                     /\ outcome'[wjob[w]] \in {"failed", "aborted"})]_vars

\* A probe reported 7500 s and the job is failing as too long.
C9_Witness ==
    \E w \in Workers :
        wpc[w] = "send_error" /\ loc[w].reason = "too_long" /\ loc[w].info.dur = 7500

\* C10: when download() finds the file over the size limit, the job fails as
\* oversize with no file to upload, nothing is delivered, and no file the
\* download wrote is left.
C10_OversizeDiscarded ==
    [][\A w \in Workers :
          /\ loc'[w].reason = "oversize"
               => (wpc'[w] = "send_error" /\ ~loc'[w].delivered
                     /\ loc'[w].file_path = NoFile)
          /\ (wpc[w] = "download" /\ loc'[w].reason = "oversize")
               => \A n \in loc[w].made : disk'[n] = 0]_vars

\* A download of more than the limit was refused.
C10_Witness ==
    \E w \in Workers :
        /\ loc[w].reason = "oversize"
        /\ \E n \in loc[w].made : disk[n] = 0


\* C11: jobs start in the order add_job inserted them, whatever their users
\* and however many workers take them: a job that left the queue for a
\* worker never has an earlier-inserted job still waiting behind it.  (Job
\* numbers are insertion order.)
C11_StrictFifo ==
    \A i, j \in Jobs : (i < j /\ ~Queued(j)) => ~Queued(i)

\* The first job of one user is with a worker and the second, of another
\* user, still waits.
C11_Witness ==
    /\ Len(jobs) = 2
    /\ juser(1) # juser(2)
    /\ Held(1)
    /\ Queued(2)
    /\ \E w \in Workers : wjob[w] = NoJob /\ wpc[w] = "get"

\* The jobs not yet handed to a worker.
Waiting == {j \in Jobs : outcome[j] = "none" /\ ~Held(j)}

\* C12: the position handle_message gets from add_job is the number of jobs
\* waiting in the queue right after the insertion, its own job included, so
\* at least 1, also when workers take jobs between two insertions.
C12_PositionIsQueueLength ==
    [][Len(jobs') > Len(jobs) =>
          /\ position' = Cardinality(Waiting')
          /\ position' = Len(queue) + 1
          /\ position' >= 1]_vars

\* A job inserted after a worker took the one before it gets position 1.
C12_Witness ==
    /\ Len(jobs) = 2
    /\ position = 1
    /\ ~Queued(1)
    /\ Queued(2)


\* The timestamps of a user's admitted requests that are less than
\* window_seconds old, and how long the oldest of them still counts.
Live(u) == {admitted[u][i] : i \in {k \in 1..Len(admitted[u]) : admitted[u][k] > now - Window}}
Oldest(u) == CHOOSE x \in Live(u) : \A y \in Live(u) : x <= y
TicksLeft(u) == Oldest(u) + Window - now
ResetTime(u) == get_reset_time(requests[u], now)

C14_AtMostMaxRequestsLive ==
    \A u \in Users :
        /\ Len(cleanup_old_requests(requests[u], now)) <= MaxRequests
        /\ Cardinality({k \in 1..Len(admitted[u]) : admitted[u][k] > now - Window})
              <= MaxRequests

\* A user with max_requests live timestamps, all recorded at the same
\* instant, has just been turned away at that instant.
C14_Witness ==
    \E u \in Users :
        /\ Len(cleanup_old_requests(requests[u], now)) = MaxRequests
        /\ \A i \in 1..Len(requests[u]) : requests[u][i] = now
        /\ lastCheck[u] = [at |-> now, allowed |-> FALSE]

\* Worker w takes a step of its task.
Acts(w) == <<wpc[w], wjob[w], loc[w]>>' # <<wpc[w], wjob[w], loc[w]>>

\* C15: the status message of a job belongs to the worker that processes the
\* job: a stored message is removed or replaced only in a step of the worker
\* holding the job that sent it, and a worker starts an edit or a delete
\* only on a message its own job sent, also with two jobs of one user in
\* flight.
C15_StatusMessageOwned ==
    [][/\ \A u \in Users :
            (status_messages[u] # NoJob /\ status_messages'[u] # status_messages[u])
                => \E w \in Workers : wjob[w] = status_messages[u] /\ Acts(w)
       /\ \A w \in Workers :
            (Acts(w) /\ wjob'[w] # NoJob /\ loc'[w].opKind = "edit")
                => status_messages[juser(wjob'[w])] = wjob'[w]]_vars

\* The files the job of worker w wrote or settled on.
FilesOf(w) == loc[w].made \cup ({loc[w].file_path} \ {NoFile})

\* C16: two jobs processed at the same time never use the same file: no file
\* is written or picked by both, and a step of one worker (its cleanup
\* included) never removes or rewrites a file of another worker's job in
\* flight, also for two jobs of one user, for the same video or not.
C16_FilesPerJob ==
    /\ [](\A w, v \in Workers :
            (w # v /\ wjob[w] # NoJob /\ wjob[v] # NoJob) => FilesOf(w) \cap FilesOf(v) = {})
    /\ [][\A w, v \in Workers :
            (w # v /\ Acts(w) /\ wjob[v] # NoJob)
                => \A n \in FilesOf(v) : disk'[n] = disk[n]]_vars

\* C17: a file left in the download directory does not stay for ever: once
\* it is older than the staleness threshold the periodic sweep deletes it,
\* so every file that exists is eventually gone.
C17_StaleFilesSwept ==
    \A n \in Names : (disk[n] # 0) ~> (disk[n] = 0)

\* The forms of a URL of the video with id: with or without scheme, with or
\* without www. or m., youtube.com with each of its four paths, or youtu.be.
AcceptedForms(id) ==
    {s \o p \o h \o id :
        s \in {<<>>, <<"https://">>, <<"http://">>},
        p \in {<<>>, <<"www.">>, <<"m.">>},
        h \in {<<"youtube.com/", "watch?v=">>, <<"youtube.com/", "v/">>,
               <<"youtube.com/", "embed/">>, <<"youtube.com/", "shorts/">>,
               <<"youtu.be/">>}}

\* The ids of 11 characters among those tried.
FullIds == {i \in Ids : Len(i) = IdLen /\ \A k \in 1..IdLen : i[k] \in IdChars}

\* C18: normalize_youtube_url is idempotent and canonical: what it returns
\* is returned unchanged when normalized again, and every accepted form of a
\* URL with the same 11-character id gives the one string
\* https://www.youtube.com/watch?v=<id>.
C18_NormalizeCanonical ==
    /\ normalized \notin {Pending, None} => normalize_youtube_url(normalized) = normalized
    /\ \A id \in FullIds :
         (url \in AcceptedForms(id) /\ normalized # Pending)
            => normalized = <<"https://", "www.", "youtube.com/", "watch?v=">> \o id

\* The canonical URL of an id was normalized and came back unchanged.
C18_Witness ==
    /\ url = normalized
    /\ url = <<"https://", "www.", "youtube.com/", "watch?v=">> \o <<"_", "-", "0">> \o Repeat("b", IdLen - 3)

\* The jobs created for user u.
JobsOf(u) == {j \in Jobs : juser(j) = u}

\* C19: a submission that is admitted records exactly one timestamp for its
\* user and puts exactly one new job of that user at the tail of the queue,
\* whatever was submitted before; a step that admits nothing for a user
\* records nothing and creates no job for that user.
C19_OneSlotOneJob ==
    [][\A u \in Users :
          IF Len(admitted'[u]) > Len(admitted[u])
          THEN /\ is_allowed(requests[u], now)
               /\ requests'[u] = Append(cleanup_old_requests(requests[u], now), now)
               /\ Len(jobs') = Len(jobs) + 1
               /\ jobs'[Len(jobs')].user_id = u
               /\ queue' = Append(queue, Len(jobs'))
          ELSE /\ Len(requests'[u]) <= Len(requests[u])
               /\ JobsOf(u)' = JobsOf(u)]_vars

\* Two submissions of one user for the same video at the same instant took
\* two slots and made two jobs.
C19_Witness ==
    \E u \in Users :
        /\ requests[u] = <<now, now>>
        /\ Cardinality(JobsOf(u)) = 2
        /\ \A j \in JobsOf(u) : jvid(j) = "vA" /\ Queued(j)

\* C20: send_video is called at most 3 times for a job; after its k-th
\* failure with another exception than FloodWait, k < 3, _send_video sleeps
\* 2^(k-1) seconds (1 s, then 2 s) and tries again; after the 3rd it does not
\* sleep, the exception goes up, and the job ends failed with one failure
\* message.
C20_ThreeAttemptsBackoff ==
    /\ [](\A w \in Workers : loc[w].attempt < 3)
    /\ [][\A w \in Workers :
            /\ SendFail(w) =>
                 IF loc[w].fails + 1 < 3
                 THEN wpc'[w] = "sleep"
                      /\ loc'[w].sleeping = (IF loc[w].fails + 1 = 1 THEN 1 ELSE 2)
                 ELSE wpc'[w] = "send_error" /\ loc'[w].sleeping = 0
            /\ (SendErrorDone(w) /\ loc[w].reason \in ErrorKinds) =>
                 (outcome'[wjob[w]] = "failed" /\ loc'[w].errs = 1)]_vars

\* The stage of process() a worker's await belongs to: probing
\* (processor.py:38-50), downloading (54-66), uploading (72-79), done (82-88),
\* failed (_send_error of 43-45, 48-50, 64-66, 95-101), or none when the
\* worker is outside process().
Stage(pc) ==
    CASE pc \in {"status_info", "get_info"} -> "PROBING"
      [] pc \in {"status_dl", "download"} -> "DOWNLOADING"
      [] pc \in {"status_up", "send", "sleep"} -> "UPLOADING"
      [] pc = "delete_status" -> "DONE"
      [] pc = "send_error" -> "FAILED"
      [] OTHER -> "NONE"

\* The stages that may follow a stage while process() runs.
MayFollow(s) ==
    CASE s = "NONE" -> {"NONE", "PROBING"}
      [] s = "PROBING" -> {"PROBING", "DOWNLOADING", "FAILED"}
      [] s = "DOWNLOADING" -> {"DOWNLOADING", "UPLOADING", "FAILED"}
      [] s = "UPLOADING" -> {"UPLOADING", "DONE", "FAILED"}
      [] OTHER -> {s}

\* C21: a job goes through probing, downloading, uploading and done in this
\* order, and may fail from any of the first three; send_video is awaited
\* only with the file a successful download returned; after done or failed
\* no stage runs, process() only returns, as done or as failed and never
\* both (a worker cancelled by stop() abandons the job where it is).
C21_PipelineOrder ==
    /\ [](\A w \in Workers :
            Stage(wpc[w]) = "UPLOADING" =>
                (loc[w].file_path # NoFile /\ loc[w].thread = "ok" /\ loc[w].reason = "none"))
    /\ [][\A w \in Workers :
            IF wjob'[w] = wjob[w]
            THEN Stage(wpc'[w]) \in MayFollow(Stage(wpc[w]))
            ELSE IF wjob[w] = NoJob
            THEN Stage(wpc'[w]) = "PROBING" \/ outcome'[wjob'[w]] = "skipped"
            ELSE /\ wjob'[w] = NoJob
                 /\ Stage(wpc'[w]) = "NONE"
                 /\ outcome[wjob[w]] = "none"
                 /\ outcome'[wjob[w]] \in
                      CASE Stage(wpc[w]) = "FAILED" -> {"failed", "aborted"}
                        [] Stage(wpc[w]) \in {"DONE", "UPLOADING"} -> {"done", "aborted"}
                        [] OTHER -> {"aborted"}]_vars

\* A job that went through every stage is at done, its file delivered.
C21_Witness ==
    \E w \in Workers :
        /\ wpc[w] = "delete_status"
        /\ loc[w].delivered
        /\ loc[w].file_path # NoFile

\* C22: whatever way process() ends with a file downloaded, delivery failed
\* on every attempt included, the file is gone in the step in which the
\* worker marks the job done in the queue, so before the worker can take
\* another job.
C22_FileDeletedBeforeTaskDone ==
    [][\A w \in Workers :
          (wjob[w] # NoJob /\ unfinished' < unfinished /\ Acts(w)
             /\ loc[w].file_path # NoFile)
            => (disk'[loc[w].file_path] = 0 /\ wjob'[w] = NoJob)]_vars

\* send_video failed for the last time with the file on disk: process() is
\* in _send_error and leaves through its finally next.
C22_Witness ==
    \E w \in Workers :
        /\ wpc[w] = "send_error"
        /\ loc[w].reason \in ErrorKinds
        /\ loc[w].file_path # NoFile
        /\ disk[loc[w].file_path] # 0

\* ---------------------------------------------------- the worker pool
\* start() called again after stop() returned (queue_manager.py:94-104, 125):
\* the list is empty and _running false, so new tasks are created.
start_again ==
    /\ stopPc = "done"
    /\ ~running
    /\ running' = TRUE
    /\ workers' = Workers
    /\ wpc' = [w \in Workers |-> "start"]
    /\ stopPc' = "idle"
    /\ timedOut' = FALSE
    /\ UNCHANGED <<queue, unfinished, processor, wjob, cancelReq, jvars, loc, cvars, rvars>>

\* More jobs than workers arrive.
ArrivalPool ==
    \E in \in JobInputs(Len(jobs) + 1) : Len(jobs) < MaxPoolJobs /\ add_job(in[1], in[2])

\* The pool under any sequence of start(), stop() and add_job() calls, each
\* start() and stop() awaited before the next; of process() only the probe
\* is followed: a job fails there, or stays in its download until stop()
\* cancels its worker.
NextPool ==
    \/ set_processor
    \/ start
    \/ start_again
    \/ ArrivalPool
    \/ \E w \in Workers :
          \/ WorkerBegin(w)
          \/ WorkerTimeout(w)
          \/ WorkerGet(w)
          \/ UpdateStatusDone(w)
          \/ GetInfoDone(w)
          \/ SendErrorDone(w)
          \/ WorkerCancelled(w)
    \/ StopCall
    \/ StopJoined
    \/ StopTimeout
    \/ StopGathered

SpecPool == Init /\ [][NextPool]_vars

\* The jobs that left the queue and have not ended.
Processing == {j \in Jobs : outcome[j] = "none" /\ ~Queued(j)}

MaxAge == MaxAgeSeconds * TicksPerSecond

StaleOrAtCutoff(m, t) == m <= t - MaxAge

\* st_mtime < cutoff (cleanup.py:49, 55) for a last-modified time m at time t.
Stale(m, t) == m < t - MaxAge

\* The entries a run at time t unlinks (cleanup.py:52-56): the regular files
\* modified before the cutoff.
Swept(l, t) == {e \in DOMAIN l : l[e].kind = "file" /\ Stale(l[e].mtime, t)}

\* cleanup_old_files (cleanup.py:34-64) on the directory l at time t: the
\* directory it leaves; it returns how many files it unlinked.
cleanup_old_files(l, t) == [e \in DOMAIN l |-> IF e \in Swept(l, t) THEN NoEntry ELSE l[e]]

\* Something creates a regular file or a subdirectory in the directory.
CreateEntry(e, k) ==
    /\ listing[e] = NoEntry
    /\ listing' = [listing EXCEPT ![e] = [kind |-> k, mtime |-> now]]
    /\ UNCHANGED <<qvars, jvars, loc, cvars, requests, now, admitted, lastCheck, calls,
                   position, url, normalized, mtime, deleted, upload>>

\* One call of cleanup_old_files on the directory.
SweepListing ==
    /\ listing' = cleanup_old_files(listing, now)
    /\ deleted' = Cardinality(Swept(listing, now))
    /\ UNCHANGED <<qvars, jvars, loc, cvars, requests, now, admitted, lastCheck, calls,
                   position, url, normalized, mtime, upload>>

NextSweep ==
    \/ Tick
    \/ \E e \in Entries, k \in {"file", "dir"} : CreateEntry(e, k)
    \/ SweepListing

SpecSweep == Init /\ [][NextSweep]_vars

\* The regular files of the directory that are older than the threshold.
OldFiles == {e \in Entries : listing[e].kind = "file" /\ now - listing[e].mtime > MaxAge}

\* C24: a run of cleanup_old_files removes exactly the regular files older
\* than the threshold and returns their number; every other entry, a
\* subdirectory or a file not older than the threshold, is left as it was;
\* with nothing stale the directory is unchanged, and a second run at the
\* same time removes nothing.
C24_SweepsExactlyStaleFiles ==
    /\ [](LET after == cleanup_old_files(listing, now)
          IN  /\ \A e \in Entries : after[e] = IF e \in OldFiles THEN NoEntry ELSE listing[e]
              /\ OldFiles = {} => after = listing
              /\ cleanup_old_files(after, now) = after)
    /\ [][(deleted' # deleted \/ listing' # listing) /\ now' = now
             /\ (\A e \in Entries : listing[e] = NoEntry => listing'[e] = NoEntry)
            => /\ \A e \in Entries : listing'[e] = IF e \in OldFiles THEN NoEntry ELSE listing[e]
               /\ deleted' = Cardinality(OldFiles)
               /\ OldFiles' = {}]_vars

\* A run removed one file and left a subdirectory older than the threshold
\* and a file exactly as old as the threshold.
C24_Witness ==
    /\ deleted = 1
    /\ \E d, f \in Entries :
         /\ listing[d].kind = "dir" /\ now - listing[d].mtime > MaxAge
         /\ listing[f].kind = "file" /\ now - listing[f].mtime = MaxAge
    /\ \E e \in Entries : listing[e] = NoEntry

\* ------------------------------------------------- _send_video: progress
\* The sizes of the files sent, in parts of the upload.
Totals == {3, 10, MaxParts}

DueOnAdvance(percent, last) == percent - last >= 1

\* percent - last_percent[0] >= 10 (processor.py:165).
Due(percent, last) == percent - last >= 10

\* int(current * 100 / total) (processor.py:164).
Percent(current, total) == (current * 100) \div total

\* _send_video is called for a file of t parts: last_percent = [0]
\* (processor.py:161), then the first attempt of the loop.
SendVideoCall(t) ==
    /\ ~upload.active
    /\ upload' = [NoUpload EXCEPT !.active = TRUE, !.total = t]
    /\ UNCHANGED <<qvars, jvars, loc, cvars, requests, now, admitted, lastCheck, calls,
                   position, url, normalized, mtime, listing, deleted>>

\* send_video has sent one more part and awaits progress(current, total)
\* (processor.py:163-174); a failure of _update_status is swallowed.
ProgressCall ==
    /\ upload.active /\ upload.current < upload.total
    /\ LET current == upload.current + 1
           percent == Percent(current, upload.total)
       IN  upload' = IF Due(percent, upload.last_percent)
                     THEN [upload EXCEPT !.current = current, !.last_percent = percent,
                                         !.emitted = Append(upload.emitted, percent)]
                     ELSE [upload EXCEPT !.current = current]
    /\ UNCHANGED <<qvars, jvars, loc, cvars, requests, now, admitted, lastCheck, calls,
                   position, url, normalized, mtime, listing, deleted>>

\* send_video raises, FloodWait or another exception (processor.py:190-199):
\* the next attempt starts the upload again, after the last one the call ends.
SendVideoRaises ==
    /\ upload.active
    /\ upload' = IF upload.attempt < max_retries - 1
                 THEN [upload EXCEPT !.attempt = upload.attempt + 1, !.current = 0]
                 ELSE [upload EXCEPT !.active = FALSE]
    /\ UNCHANGED <<qvars, jvars, loc, cvars, requests, now, admitted, lastCheck, calls,
                   position, url, normalized, mtime, listing, deleted>>

\* send_video returns (processor.py:180-188): the call of _send_video ends.
SendVideoReturns ==
    /\ upload.active /\ upload.current = upload.total
    /\ upload' = [upload EXCEPT !.active = FALSE]
    /\ UNCHANGED <<qvars, jvars, loc, cvars, requests, now, admitted, lastCheck, calls,
                   position, url, normalized, mtime, listing, deleted>>

NextUpload ==
    \/ \E t \in Totals : SendVideoCall(t)
    \/ ProgressCall
    \/ SendVideoRaises
    \/ SendVideoReturns

SpecUpload == Init /\ [][NextUpload]_vars

\* The percentage of the latest progress update of the call, 0 before the first.
LastEmitted == IF upload.emitted = <<>> THEN 0 ELSE upload.emitted[Len(upload.emitted)]

\* C25: a progress update is made only in a progress call whose integer
\* percentage is at least 10 above that of the latest update of the job (0
\* before the first), so the updates of a job are at most 10, retried
\* attempts of send_video included.
C25_ProgressEveryTenPercent ==
    /\ [](/\ Len(upload.emitted) <= 10
          /\ \A i \in 1..Len(upload.emitted) :
               /\ upload.emitted[i] <= 100
               /\ upload.emitted[i] - (IF i = 1 THEN 0 ELSE upload.emitted[i - 1]) >= 10)
    /\ [][(upload.active /\ upload'.emitted # upload.emitted)
            => /\ upload'.active /\ upload'.current = upload.current + 1
               /\ upload'.emitted = Append(upload.emitted, Percent(upload'.current, upload.total))
               /\ Percent(upload'.current, upload.total) - LastEmitted >= 10]_vars

\* The tenth update of a job is made in the third attempt of send_video.
C25_Witness ==
    /\ upload.active /\ upload.attempt = max_retries - 1
    /\ Len(upload.emitted) = 10

\* C26: process() goes on from _send_video to the success path, deleting
\* the status message and logging completion, only when a send_video call of
\* the job returned.
C26_SuccessOnlyAfterDelivery ==
    [][\A w \in Workers :
          (wpc[w] \in {"send", "sleep"}
             /\ (wpc'[w] = "delete_status" \/ loc'[w].result = "done"))
            => loc'[w].delivered]_vars

\* How many requests of user u were admitted less than window_seconds ago.
LiveCount(u) == Cardinality({k \in 1..Len(admitted[u]) : admitted[u][k] > now - Window})

\* C27: a message without a YouTube link leaves the rate limiter untouched,
\* not even consulted, and enqueues nothing; a message with a link from a
\* user who already has max_requests live requests is turned away with no
\* timestamp recorded and no job enqueued; and a timestamp is recorded for a
\* user only in a step that also puts a new job of that user in the queue.
C27_RejectedChangesNothing ==
    /\ [][\A u \in Users, text \in Texts :
            handle_message(u, text) =>
              /\ extract_urls_from_text(text) = <<>>
                   => UNCHANGED <<requests, lastCheck, admitted, jobs, outcome, queue,
                                  unfinished>>
              /\ (extract_urls_from_text(text) # <<>> /\ LiveCount(u) >= MaxRequests)
                   => /\ lastCheck'[u] = [at |-> now, allowed |-> FALSE]
                      /\ cleanup_old_requests(requests'[u], now)
                           = cleanup_old_requests(requests[u], now)
                      /\ \A v \in Users \ {u} : requests'[v] = requests[v]
                      /\ UNCHANGED <<admitted, jobs, outcome, queue, unfinished>>]_vars
    /\ [][\A u \in Users :
            (now' = now /\ Len(cleanup_old_requests(requests'[u], now))
                             > Len(cleanup_old_requests(requests[u], now)))
              => /\ Len(jobs') = Len(jobs) + 1
                 /\ jobs'[Len(jobs')].user_id = u
                 /\ queue' = Append(queue, Len(jobs'))
                 /\ requests'[u] = Append(cleanup_old_requests(requests[u], now), now)]_vars

\* A user was turned away right after max_requests admitted requests; the one
\* timestamp of the other user has expired and is still in that user's list,
\* the limiter not having been consulted for that user since.
C27_Witness ==
    \E u, v \in Users :
        /\ u # v
        /\ lastCheck[u] = [at |-> now, allowed |-> FALSE]
        /\ LiveCount(u) = MaxRequests
        /\ Cardinality(JobsOf(u)) = MaxRequests
        /\ calls = MaxCalls
        /\ Len(requests[v]) = 1 /\ LiveCount(v) = 0

\* C28: while no job of a user is being processed, status_messages holds no
\* entry for that user, whatever the outcome of the user's earlier jobs and
\* whether or not their edit and delete calls failed.
C28_NoLeftoverStatus ==
    \A u \in Users :
        (\A w \in Workers : wjob[w] = NoJob \/ juser(wjob[w]) # u)
            => status_messages[u] = NoJob

\* ------------------------------------------------------ periodic_cleanup
MaxSweptJobs == 1      \* jobs processed beside the sweeper

\* What directory.iterdir() and stat() (cleanup.py:52-55) show of the download
\* directory: its files with their last-modified times.
DirListing == [n \in {m \in Names : disk[m] # 0} |-> [kind |-> "file", mtime |-> mtime[n]]]

\* periodic_cleanup (cleanup.py:67-92) wakes up and runs cleanup_old_files on
\* the download directory.
periodic_cleanup ==
    /\ disk' = [n \in Names |-> IF n \in Swept(DirListing, now) THEN 0 ELSE disk[n]]
    /\ deleted' = Cardinality(Swept(DirListing, now))
    /\ UNCHANGED <<qvars, jvars, loc, status_messages, mtime, requests, now, admitted,
                   lastCheck, calls, position, url, normalized, listing, upload>>

ArrivalSwept ==
    \E in \in JobInputs(Len(jobs) + 1) : Len(jobs) < MaxSweptJobs /\ add_job(in[1], in[2])

\* The pipeline with the sweeper running beside it; stop() is not called.
NextSwept ==
    \/ set_processor
    \/ start
    \/ ArrivalSwept
    \/ \E w \in Workers :
         \/ WorkerBegin(w) \/ WorkerTimeout(w) \/ WorkerGet(w)
         \/ UpdateStatusDone(w) \/ GetInfoDone(w) \/ SendErrorDone(w)
         \/ DeleteStatusDone(w) \/ DownloadThread(w) \/ DownloadTimeout(w)
         \/ DownloadReturn(w) \/ UploadProgress(w) \/ SendOk(w) \/ SendFlood(w)
         \/ SendFail(w) \/ SleepDone(w)
    \/ Tick
    \/ periodic_cleanup

SpecSwept == Init /\ [][NextSwept]_vars

\* C29: a run of the sweeper removes no file of a job that a worker is still
\* processing, however the runs fall between the steps of the job and
\* however long the job takes.
C29_SweepSparesJobsInFlight ==
    [][periodic_cleanup =>
         \A w \in Workers :
            wjob[w] # NoJob => \A n \in FilesOf(w) : disk'[n] = disk[n]]_vars

\* ------------------------------------------------------- stop() terminates
\* wait_for(queue.join(), 30) ends, by the join or by the timeout, and gather
\* returns once the workers have ended; the event loop resumes every task
\* that can run.
SpecStop ==
    /\ Spec
    /\ Fairness
    /\ WF_vars(StopJoined \/ StopTimeout)
    /\ WF_vars(StopGathered)

\* C30: stop() returns: after the drain wait has ended, by the join or by
\* its timeout, the only step a worker task takes is its end under the
\* cancellation, and gather returns; when stop() has returned every worker
\* task has ended, the workers list is empty and no job is being processed.
C30_StopTerminates ==
    /\ (stopPc = "join") ~> (stopPc = "done")
    /\ [][\A w \in Workers :
            (stopPc = "gather" /\ <<wpc[w], wjob[w]>>' # <<wpc[w], wjob[w]>>)
              => (cancelReq[w] /\ wpc'[w] = "stopped" /\ wjob'[w] = NoJob)]_vars
    /\ [](stopPc = "done" =>
            /\ workers = {}
            /\ \A w \in Workers : wpc[w] \in {"idle", "stopped"} /\ wjob[w] = NoJob
            /\ Processing = {})

\* stop() has returned after the drain timed out with both workers in the
\* middle of a job.
C30_Witness ==
    /\ stopPc = "done" /\ timedOut
    /\ Len(jobs) = 2
    /\ \A j \in Jobs : outcome[j] = "aborted"

\* -------------------------------------------------------------- task_done
\* The jobs put in the queue and not yet acknowledged with task_done().
Unacknowledged == {j \in Jobs : outcome[j] = "none"}

\* C31: a job taken from the queue is acknowledged with task_done() exactly
\* once, in the step in which its processing ends (done, failed, cancelled,
\* or skipped for want of a processor), and never again; so the count of
\* unfinished tasks is the number of jobs waiting plus the number being
\* processed, never negative, and queue.join() returns exactly while the
\* queue is empty and no job is being processed.
C31_TaskDoneExactlyOnce ==
    /\ [](/\ unfinished = Len(queue) + Cardinality(Processing)
          /\ unfinished = Cardinality(Unacknowledged)
          /\ unfinished >= 0
          /\ JoinReturns <=> (queue = <<>> /\ \A w \in Workers : wjob[w] = NoJob))
    /\ [][/\ \A j \in Jobs :
               outcome[j] # "none" => outcome'[j] = outcome[j]
          /\ unfinished' < unfinished
               => /\ unfinished' = unfinished - 1
                  /\ \E j \in Jobs :
                       /\ ~Queued(j)' /\ outcome[j] = "none" /\ outcome'[j] # "none"
                       /\ \A k \in Jobs \ {j} : outcome'[k] = outcome[k]
          /\ \A j \in Jobs :
               (outcome[j] = "none" /\ outcome'[j] # "none")
                 => unfinished' = unfinished - 1
          /\ (stopPc = "join" /\ stopPc' = "gather")
               => (timedOut' <=> ~(queue = <<>> /\ Processing = {}))]_vars

\* stop() has returned after a job skipped for want of a processor and a job
\* cancelled in the middle of process(), both acknowledged.
C31_Witness ==
    /\ stopPc = "done"
    /\ outcome = <<"skipped", "aborted">>
    /\ unfinished = 0
=============================================================================
